---- MODULE Spec2Model ----
(***************************************************************************)
(* iWatcherPartner: the per-file processing workflow                      *)
(* (iwatcher-gdrive-trigger): Google Drive trigger, download, AssemblyAI   *)
(* submission and polling, OpenAI summary with fallback, transcript        *)
(* formatting, Notion chunking, dual delivery and the final file move.     *)
(*                                                                         *)
(* Texts are sequences of one-character strings.  Time is in seconds.      *)
(***************************************************************************)
EXTENDS Integers, Sequences, FiniteSets, TLC

\* ------------------------------------------------------------------ bounds
MaxRuns        == 2   \* run slots available to the trigger
MaxChunkChars  == 2   \* chunkMaxChars is drawn from 1..MaxChunkChars
MaxSummaryLen  == 2   \* longest summary text the completion provider returns
MinChunkChars  == -1  \* smallest chunk size a misconfigured deployment sets

\* ------------------------------------------------------- program constants
PollIntervalSeconds == 30    \* "Wait 30 Seconds"
PollDeadlineSeconds == 600   \* "max 10 minutes"

RunIds   == 1..MaxRuns
Files    == {"f1", "f2"}
Alphabet == {"a", "b"}

NoFile       == "no_file"
NoTranscript == [present |-> FALSE, utterances |-> << >>]
NoSummary    == [tag |-> "None", text |-> << >>]

\* ------------------------------------------------------------ text helpers
RECURSIVE Concat(_)
Concat(ss) == IF ss = << >> THEN << >> ELSE Head(ss) \o Concat(Tail(ss))

Min(a, b) == IF a < b THEN a ELSE b

\* all texts over Alphabet of length 0..n
TextsUpTo(n) == UNION { [1..k -> Alphabet] : k \in 0..n }

\* --------------------------------------------------------------- Chunker
\* Build Notion Blocks: fixed-width slicing by character.
\* block i (0-based) = text[i*maxSize : min((i+1)*maxSize, len(text))]
RECURSIVE SplitFrom(_, _, _)
SplitFrom(text, maxSize, i) ==
    IF i * maxSize >= Len(text)
    THEN << >>
    ELSE << SubSeq(text, i * maxSize + 1, Min((i + 1) * maxSize, Len(text))) >>
         \o SplitFrom(text, maxSize, i + 1)

\* faulty variant: the blocks come out in reverse order
RECURSIVE Reverse(_)
Reverse(q) == IF q = << >> THEN << >> ELSE Reverse(Tail(q)) \o << Head(q) >>
SplitReversed(text, maxSize) == Reverse(SplitFrom(text, maxSize, 0))

\* faulty variant: a trailing partial block is dropped
SplitDropsPartial(text, maxSize) ==
    SplitFrom(SubSeq(text, 1, (Len(text) \div maxSize) * maxSize), maxSize, 0)

\* faulty variant: slices are one character too wide
SplitWide(text, maxSize) == SplitFrom(text, maxSize + 1, 0)

Split(text, maxSize) == SplitFrom(text, maxSize, 0)

\* faulty variant: the size is validated only when there is text to slice
SplitResultLenient(text, maxSize) ==
    IF maxSize <= 0 /\ text # << >>
    THEN [tag |-> "InvalidArgument", blocks |-> << >>]
    ELSE [tag |-> "Ok", blocks |-> IF text = << >> THEN << >>
                                   ELSE Split(text, maxSize)]

\* Split with its precondition: maxSize > 0 required, else InvalidArgument
SplitResult(text, maxSize) ==
    IF maxSize <= 0
    THEN [tag |-> "InvalidArgument", blocks |-> << >>]
    ELSE [tag |-> "Ok", blocks |-> Split(text, maxSize)]

\* ------------------------------------------------------ Transcript Formatter
Speakers        == {"A", "B"}
UtteranceStarts == {5, 615}
MaxUtterances   == 2

\* what each speaker says (one short text per speaker keeps the input set small)
Said(sp) == IF sp = "A" THEN << "a" >> ELSE << "b", "a" >>

Utterances == { [speaker |-> sp, start |-> st, text |-> Said(sp)] :
                sp \in Speakers, st \in UtteranceStarts }

\* the utterance lists a completed job can return, in any input order
UtteranceLists == UNION { [1..k -> Utterances] : k \in 0..MaxUtterances }

Digit(d) == CASE d = 0 -> "0" [] d = 1 -> "1" [] d = 2 -> "2" [] d = 3 -> "3"
              [] d = 4 -> "4" [] d = 5 -> "5" [] d = 6 -> "6" [] d = 7 -> "7"
              [] d = 8 -> "8" [] OTHER -> "9"

RECURSIVE Digits(_)
Digits(n) == IF n < 10 THEN << Digit(n) >>
             ELSE Digits(n \div 10) \o << Digit(n % 10) >>

\* zero-padded to two digits
Pad2(n) == IF n < 10 THEN << "0" >> \o Digits(n) ELSE Digits(n)

\* faulty variant: the seconds are not reduced modulo 60
StampRawSeconds(start) == << "[" >> \o Pad2(start \div 60) \o << ":" >>
                          \o Pad2(start) \o << "]" >>

Stamp(start) == << "[" >> \o Pad2(start \div 60) \o << ":" >>
                \o Pad2(start % 60) \o << "]" >>

SpeakerLabel(sp) == << "S", "p", "e", "a", "k", "e", "r", " ", sp >>

\* one line per utterance: [MM:SS] Speaker A: text
FormatLine(u) == Stamp(u.start) \o << " " >> \o SpeakerLabel(u.speaker)
                 \o << ":", " " >> \o u.text

\* stable insertion into a list sorted by start offset
RECURSIVE InsertByStart(_, _)
InsertByStart(u, us) ==
    IF us = << >> THEN << u >>
    ELSE IF u.start < Head(us).start THEN << u >> \o us
    ELSE << Head(us) >> \o InsertByStart(u, Tail(us))

\* faulty variant: the utterances are emitted in input order
SortByStartKeepsInputOrder(us) == us

RECURSIVE SortByStart(_)
SortByStart(us) ==
    IF us = << >> THEN << >>
    ELSE InsertByStart(us[Len(us)], SortByStart(SubSeq(us, 1, Len(us) - 1)))

RECURSIVE JoinLines(_)
JoinLines(ls) ==
    IF ls = << >> THEN << >>
    ELSE IF Len(ls) = 1 THEN Head(ls)
    ELSE Head(ls) \o << "\n" >> \o JoinLines(Tail(ls))

FormatLines(us) == [i \in 1..Len(us) |-> FormatLine(SortByStart(us)[i])]

Format(t) == JoinLines(FormatLines(t.utterances))

\* -------------------------------------------------------------- Summarizer
SummaryTexts == TextsUpTo(MaxSummaryLen)

\* placeholder returned when the completion provider fails
FallbackText == << "n", "/", "a" >>

\* =================================================================== state
VARIABLES
    folder,        \* Google Drive: folder[f] is where source file f lies
    triggersLeft,  \* trigger events the watcher has yet to deliver
    chunkMaxChars, \* Config: block size of the structured sink
    provider,      \* what the external providers can answer in this environment
    stage,         \* stage[r]: the node run r is at
    fileRef,       \* fileRef[r]: file reference received from the trigger
    savedFileId,   \* savedFileId[r]: file_id saved by Initialize Polling
    elapsed,       \* elapsed[r]: seconds slept since submission
    lastStatus,    \* lastStatus[r]: status returned by the latest Get Result
    transcript,    \* transcript[r]: Transcript built from a completed job
    summary,       \* summary[r]: SummaryResult
    formatted,     \* formatted[r]: formatted transcript text
    error,         \* error[r]: per-run error record
    calls,         \* calls[r][c]: how often run r invoked component c
    drivePath,     \* drivePath[r]: position on Path 1 (Google Drive)
    notionPath,    \* notionPath[r]: position on Path 2 (Notion)
    blocks,        \* blocks[r]: block sequences built by Build Notion Blocks
    outcome,       \* outcome[r]: DeliveryOutcome per sink
    driveFiles,    \* flat sink: documents written
    notionPages,   \* structured sink: records created
    moves,         \* moves[r]: destinations run r moved its file to, in order
    deploy         \* scripts/deploy.sh: position, environment, output, exit status

\* the state of the workflow, without the deployment script
flowVars == << folder, triggersLeft, chunkMaxChars, provider, stage, fileRef, savedFileId,
               elapsed, lastStatus, transcript, summary, formatted,
               error, calls, drivePath, notionPath, blocks, outcome, driveFiles,
               notionPages, moves >>

vars == << folder, triggersLeft, chunkMaxChars, provider, stage, fileRef, savedFileId,
           elapsed, lastStatus, transcript, summary, formatted,
           error, calls, drivePath, notionPath, blocks, outcome, driveFiles,
           notionPages, moves, deploy >>

Statuses   == {"queued", "processing", "completed", "error"}
Pending    == {"queued", "processing"}
Components == {"Download", "Submit", "Poll", "Summarizer", "Formatter",
               "Chunker", "DriveSink", "NotionSink", "Move", "Cancel"}
Downstream == {"Summarizer", "Formatter", "Chunker", "DriveSink", "NotionSink"}
EarlyErrors == {"DownloadError", "SubmissionError", "ProviderError", "Timeout"}

NoBlocks  == [summary |-> << >>, transcript |-> << >>]
NoOutcome == [drive |-> "none", notion |-> "none"]

\* ------------------------------------------------------ scripts/deploy.sh
\* STACK_NAME, and the key under which the script reads deployment-outputs.json
StackName  == "IWatcherPartnerStack"
OutputsKey == "IWatcherPartnerStack"

\* the stack the entry point cdk-app.ts instantiates
CdkAppTsStacks == {"SimpleIWatcherStack"}
\* an app built on lib/iwatcher-partner-stack.ts, whose outputs the script reads
PartnerAppStacks == {"IWatcherPartnerStack"}
CdkApps == {CdkAppTsStacks, PartnerAppStacks}

\* what is installed and configured on the machine that runs the script
Envs == [aws : BOOLEAN, creds : BOOLEAN, node : BOOLEAN, npm : BOOLEAN,
         jq : BOOLEAN]

NotExited       == -1
CommandNotFound == 127
\* exit statuses of a command that is installed; of one that is not
StatusesOf(installed) == IF installed THEN {0, 1, 2} ELSE {CommandNotFound}

DeployPcs == {"Off", "CheckAwsCli", "CheckCredentials", "CheckNode", "CheckNpm",
              "GetAccountId", "NpmInstall", "CdkBootstrap", "NpmRunBuild",
              "CdkDeploy", "CheckResult", "ExtractOutputs", "Finish", "Exited"}

Provisioning == {"npm install", "cdk bootstrap", "npm run build", "cdk deploy"}

\* the script at position pc on machine env with CDK app stacks
DeployAt(pc, env, stacks) ==
    [pc |-> pc, env |-> env, stacks |-> stacks, ran |-> << >>, out |-> << >>,
     last |-> 0, cdkStatus |-> NotExited, outputsFile |-> FALSE,
     status |-> NotExited]

\* the script is not being run
DeployOff ==
    DeployAt("Off", [aws |-> TRUE, creds |-> TRUE, node |-> TRUE, npm |-> TRUE,
                     jq |-> TRUE], CdkAppTsStacks)

TypeOK ==
    /\ deploy.pc \in DeployPcs
    /\ deploy.env \in Envs
    /\ deploy.stacks \in CdkApps
    /\ deploy.status \in {NotExited, 0, 1, 2, CommandNotFound}
    /\ folder \in [Files -> {"New", "Completed", "Failed"}]
    /\ triggersLeft \in Nat
    /\ chunkMaxChars \in MinChunkChars..MaxChunkChars
    /\ provider \in [statuses : SUBSET Statuses,
                     transcripts : SUBSET UtteranceLists,
                     summaries : SUBSET SummaryTexts]
    /\ stage \in [RunIds -> {"Idle", "Download", "Upload", "InitPolling",
                             "Wait", "GetResult", "OpenAI", "PrepareData",
                             "CreateContent", "Deliver", "Failed", "Done",
                             "Halted"}]
    /\ fileRef \in [RunIds -> Files \cup {NoFile}]
    /\ savedFileId \in [RunIds -> Files \cup {NoFile}]
    /\ elapsed \in [RunIds -> Nat]
    /\ lastStatus \in [RunIds -> Statuses \cup {"none"}]
    /\ error \in [RunIds -> EarlyErrors \cup {"None", "InvalidArgument"}]
    /\ calls \in [RunIds -> [Components -> Nat]]
    /\ drivePath \in [RunIds -> {"Off", "Save", "Move", "Done"}]
    /\ notionPath \in [RunIds -> {"Off", "Build", "Create", "Done"}]
    /\ outcome \in [RunIds -> [drive : {"none", "ok", "fail"},
                               notion : {"none", "ok", "fail"}]]

\* the state after deployment, before any file is detected
Start ==
    /\ folder = [f \in Files |-> "New"]
    /\ triggersLeft = 1
    /\ chunkMaxChars \in 1..MaxChunkChars
    /\ stage = [r \in RunIds |-> "Idle"]
    /\ fileRef = [r \in RunIds |-> NoFile]
    /\ savedFileId = [r \in RunIds |-> NoFile]
    /\ elapsed = [r \in RunIds |-> 0]
    /\ lastStatus = [r \in RunIds |-> "none"]
    /\ transcript = [r \in RunIds |-> NoTranscript]
    /\ summary = [r \in RunIds |-> NoSummary]
    /\ formatted = [r \in RunIds |-> << >>]
    /\ error = [r \in RunIds |-> "None"]
    /\ calls = [r \in RunIds |-> [c \in Components |-> 0]]
    /\ drivePath = [r \in RunIds |-> "Off"]
    /\ notionPath = [r \in RunIds |-> "Off"]
    /\ blocks = [r \in RunIds |-> NoBlocks]
    /\ outcome = [r \in RunIds |-> NoOutcome]
    /\ driveFiles = {}
    /\ notionPages = {}
    /\ moves = [r \in RunIds |-> << >>]
    /\ deploy = DeployOff

\* every transcript and every summary text within the bounds can come back
Init ==
    /\ Start
    /\ provider = [statuses |-> Statuses, transcripts |-> UtteranceLists,
                   summaries |-> SummaryTexts]

\* an environment with two recordings and two summary texts
SmallInit ==
    /\ Start
    /\ provider = [statuses    |-> Statuses,
                   transcripts |-> { << >>,
                                     << [speaker |-> "B", start |-> 615, text |-> Said("B")],
                                        [speaker |-> "A", start |-> 5, text |-> Said("A")] >> },
                   summaries   |-> { << >>, << "a", "b" >> }]

Called(r, c) == [calls EXCEPT ![r][c] = @ + 1]

\* ================================================================= actions
\* faulty variant: "Check if Already Processed" / "Is New File?" still guard
\* the trigger
TriggerDeduplicated(r, f) ==
    /\ triggersLeft > 0
    /\ stage[r] = "Idle"
    /\ \A q \in RunIds : q < r => stage[q] # "Idle"
    /\ folder[f] = "New"
    /\ \A q \in RunIds : fileRef[q] # f
    /\ triggersLeft' = triggersLeft - 1
    /\ stage' = [stage EXCEPT ![r] = "Download"]
    /\ fileRef' = [fileRef EXCEPT ![r] = f]
    /\ UNCHANGED << deploy, folder, chunkMaxChars, provider, savedFileId, elapsed,
                    lastStatus, transcript, summary, formatted, error, calls,
                    drivePath, notionPath, blocks, outcome, driveFiles,
                    notionPages, moves >>

\* New File in Google Drive: the trigger connects directly to Download Audio.
Trigger(r, f) ==
    /\ triggersLeft > 0
    /\ stage[r] = "Idle"
    /\ \A q \in RunIds : q < r => stage[q] # "Idle"
    /\ folder[f] = "New"
    /\ triggersLeft' = triggersLeft - 1
    /\ stage' = [stage EXCEPT ![r] = "Download"]
    /\ fileRef' = [fileRef EXCEPT ![r] = f]
    /\ UNCHANGED << deploy, folder, chunkMaxChars, provider, savedFileId, elapsed,
                    lastStatus, transcript, summary, formatted, error, calls,
                    drivePath, notionPath, blocks, outcome, driveFiles,
                    notionPages, moves >>

\* Download Audio: Fetch(fileRef) -> bytes, or DownloadError.
DownloadAudio(r) ==
    /\ stage[r] = "Download"
    /\ calls' = Called(r, "Download")
    /\ \/ /\ stage' = [stage EXCEPT ![r] = "Upload"]
          /\ UNCHANGED error
       \/ /\ stage' = [stage EXCEPT ![r] = "Failed"]
          /\ error' = [error EXCEPT ![r] = "DownloadError"]
    /\ UNCHANGED << deploy, folder, triggersLeft, chunkMaxChars, provider, fileRef,
                    savedFileId, elapsed, lastStatus, transcript, summary,
                    formatted, drivePath, notionPath, blocks, outcome,
                    driveFiles, notionPages, moves >>

\* faulty variant: a rejected submission is recorded but the run continues
StartTranscriptionContinue(r) ==
    /\ stage[r] = "Upload"
    /\ calls' = [calls EXCEPT ![r]["Submit"] = @ + 1]
    /\ stage' = [stage EXCEPT ![r] = "InitPolling"]
    /\ \/ UNCHANGED error
       \/ error' = [error EXCEPT ![r] = "SubmissionError"]
    /\ UNCHANGED << deploy, folder, triggersLeft, chunkMaxChars, provider, fileRef,
                    savedFileId, elapsed, lastStatus, transcript, summary,
                    formatted, drivePath, notionPath, blocks, outcome,
                    driveFiles, notionPages, moves >>

\* Upload to AssemblyAI + Start Transcription: Submit(bytes) -> jobId,
\* or SubmissionError.
StartTranscription(r) ==
    /\ stage[r] = "Upload"
    /\ calls' = Called(r, "Submit")
    /\ \/ /\ stage' = [stage EXCEPT ![r] = "InitPolling"]
          /\ UNCHANGED error
       \/ /\ stage' = [stage EXCEPT ![r] = "Failed"]
          /\ error' = [error EXCEPT ![r] = "SubmissionError"]
    /\ UNCHANGED << deploy, folder, triggersLeft, chunkMaxChars, provider, fileRef,
                    savedFileId, elapsed, lastStatus, transcript, summary,
                    formatted, drivePath, notionPath, blocks, outcome,
                    driveFiles, notionPages, moves >>

\* Initialize Polling: saves file_id from the trigger, starts the clock.
InitializePolling(r) ==
    /\ stage[r] = "InitPolling"
    /\ savedFileId' = [savedFileId EXCEPT ![r] = fileRef[r]]
    /\ elapsed' = [elapsed EXCEPT ![r] = 0]
    /\ stage' = [stage EXCEPT ![r] = "Wait"]
    /\ UNCHANGED << deploy, folder, triggersLeft, chunkMaxChars, provider, fileRef,
                    lastStatus, transcript, summary, formatted, error, calls,
                    drivePath, notionPath, blocks, outcome, driveFiles,
                    notionPages, moves >>

\* Wait 30 Seconds.
Wait30Seconds(r) ==
    /\ stage[r] = "Wait"
    /\ elapsed' = [elapsed EXCEPT ![r] = @ + PollIntervalSeconds]
    /\ stage' = [stage EXCEPT ![r] = "GetResult"]
    /\ UNCHANGED << deploy, folder, triggersLeft, chunkMaxChars, provider, fileRef,
                    savedFileId, lastStatus, transcript, summary, formatted,
                    error, calls, drivePath, notionPath, blocks, outcome,
                    driveFiles, notionPages, moves >>

\* faulty variant: the deadline check allows one interval too many
DeadlineExceededLate(e) == e > PollDeadlineSeconds + PollIntervalSeconds

\* faulty variant: reaching the deadline already counts as exceeding it
DeadlineExceededAtDeadline(e) == e >= PollDeadlineSeconds

\* the poll deadline is exceeded
DeadlineExceeded(e) == e > PollDeadlineSeconds

\* faulty variant: an `error` status is not recognised as a failure
ProviderFailedNever(st) == FALSE

\* Check Status: the provider reports that the job failed
ProviderFailed(st) == st = "error"

\* faulty variant: a job still processing is taken for a finished one
NextAfterStatusEager(st, e) ==
    IF st \in {"completed", "processing"} THEN "OpenAI"
    ELSE IF ProviderFailed(st) THEN "Failed"
    ELSE IF DeadlineExceeded(e) THEN "Failed"
    ELSE "Wait"

\* faulty variant: the timeout exit of the loop is not wired to the failure move
NextAfterStatusUnwired(st, e) ==
    IF st = "completed" THEN "OpenAI"
    ELSE IF ProviderFailed(st) THEN "Failed"
    ELSE IF DeadlineExceeded(e) THEN "Done"
    ELSE "Wait"

\* Check Status: where the run goes after a status query
NextAfterStatus(st, e) ==
    IF st = "completed" THEN "OpenAI"
    ELSE IF ProviderFailed(st) THEN "Failed"
    ELSE IF DeadlineExceeded(e) THEN "Failed"
    ELSE "Wait"

\* Check Status: the error recorded after a status query
ErrorAfterStatus(st, e) ==
    IF st = "completed" THEN "None"
    ELSE IF ProviderFailed(st) THEN "ProviderError"
    ELSE IF DeadlineExceeded(e) THEN "Timeout"
    ELSE "None"

\* faulty variant: leaving the loop on the deadline retracts the job
RequestsOfQueryCancelling(r, st) ==
    IF st \in Pending /\ DeadlineExceeded(elapsed[r])
    THEN [calls EXCEPT ![r]["Poll"] = @ + 1, ![r]["Cancel"] = @ + 1]
    ELSE Called(r, "Poll")

\* Get Result sends one status query and nothing else to the provider
RequestsOfQuery(r, st) == Called(r, "Poll")

\* Get Result -> Check Status: Poll(jobId) and the branch taken on its status.
GetResult(r) ==
    /\ stage[r] = "GetResult"
    /\ \E st \in provider.statuses :
        /\ calls' = RequestsOfQuery(r, st)
        /\ lastStatus' = [lastStatus EXCEPT ![r] = st]
        /\ stage' = [stage EXCEPT ![r] = NextAfterStatus(st, elapsed[r])]
        /\ error' = [error EXCEPT ![r] = ErrorAfterStatus(st, elapsed[r])]
        /\ IF st = "completed"
           THEN \E us \in provider.transcripts :
                  transcript' = [transcript EXCEPT ![r] =
                                   [present |-> TRUE, utterances |-> us]]
           ELSE UNCHANGED transcript
    /\ UNCHANGED << deploy, folder, triggersLeft, chunkMaxChars, provider, fileRef,
                    savedFileId, elapsed, summary, formatted, drivePath,
                    notionPath, blocks, outcome, driveFiles, notionPages,
                    moves >>

\* faulty variant: the fallback carries no text
SummaryResultEmpty(providerOk, text) ==
    IF providerOk THEN [tag |-> "Ok", text |-> text]
    ELSE [tag |-> "Fallback", text |-> << >>]

\* SummaryResult: Ok(text) when the completion provider answers,
\* Fallback(placeholder) when it fails in any way.
SummaryResult(providerOk, text) ==
    IF providerOk THEN [tag |-> "Ok", text |-> text]
    ELSE [tag |-> "Fallback", text |-> FallbackText]

\* Process with OpenAI: continues even if OpenAI fails.
ProcessWithOpenAI(r) ==
    /\ stage[r] = "OpenAI"
    /\ calls' = Called(r, "Summarizer")
    /\ \/ \E text \in provider.summaries :
             summary' = [summary EXCEPT ![r] = SummaryResult(TRUE, text)]
       \/ summary' = [summary EXCEPT ![r] = SummaryResult(FALSE, << >>)]
    /\ stage' = [stage EXCEPT ![r] = "PrepareData"]
    /\ UNCHANGED << deploy, folder, triggersLeft, chunkMaxChars, provider, fileRef,
                    savedFileId, elapsed, lastStatus, transcript, formatted,
                    error, drivePath, notionPath, blocks, outcome, driveFiles,
                    notionPages, moves >>

\* Prepare Data: format transcript with speaker/timestamps.
PrepareData(r) ==
    /\ stage[r] = "PrepareData"
    /\ calls' = Called(r, "Formatter")
    /\ formatted' = [formatted EXCEPT ![r] = Format(transcript[r])]
    /\ stage' = [stage EXCEPT ![r] = "CreateContent"]
    /\ UNCHANGED << deploy, folder, triggersLeft, chunkMaxChars, provider, fileRef,
                    savedFileId, elapsed, lastStatus, transcript, summary,
                    error, drivePath, notionPath, blocks, outcome, driveFiles,
                    notionPages, moves >>

\* Create Text File Content: passes file_id through and forks the two paths.
CreateTextFileContent(r) ==
    /\ stage[r] = "CreateContent"
    /\ stage' = [stage EXCEPT ![r] = "Deliver"]
    /\ drivePath' = [drivePath EXCEPT ![r] = "Save"]
    /\ notionPath' = [notionPath EXCEPT ![r] = "Build"]
    /\ UNCHANGED << deploy, folder, triggersLeft, chunkMaxChars, provider, fileRef,
                    savedFileId, elapsed, lastStatus, transcript, summary,
                    formatted, error, calls, blocks, outcome, driveFiles,
                    notionPages, moves >>

\* faulty variant: a failed sink write stops the run with the error handler
StageAfterSinkFailureAborts == "Failed"

\* a failed sink write is recorded as a DeliveryOutcome; the run stays in
\* delivery and the sibling path goes on
StageAfterDriveFailure  == "Deliver"
StageAfterNotionFailure == "Deliver"

\* faulty variant: the text file gets the first 2000-character block only
TextFileFirstBlock(r) ==
    [run |-> r, name |-> fileRef[r],
     summary |-> SubSeq(summary[r].text, 1, Min(chunkMaxChars, Len(summary[r].text))),
     transcript |-> SubSeq(formatted[r], 1, Min(chunkMaxChars, Len(formatted[r])))]

\* the text file written to Google Drive: full summary and transcript, unsplit
TextFile(r) == [run |-> r, name |-> fileRef[r],
                summary |-> summary[r].text, transcript |-> formatted[r]]

\* Path 1: Convert to Binary, Save Text to Google Drive (one upload).
SaveTextToGoogleDrive(r) ==
    /\ stage[r] = "Deliver"
    /\ drivePath[r] = "Save"
    /\ calls' = Called(r, "DriveSink")
    /\ \/ /\ driveFiles' = driveFiles \cup {TextFile(r)}
          /\ outcome' = [outcome EXCEPT ![r].drive = "ok"]
       \/ /\ UNCHANGED driveFiles
          /\ outcome' = [outcome EXCEPT ![r].drive = "fail"]
    /\ stage' = [stage EXCEPT ![r] =
                    IF outcome'[r].drive = "fail"
                    THEN StageAfterDriveFailure ELSE "Deliver"]
    /\ drivePath' = [drivePath EXCEPT ![r] = "Move"]
    /\ UNCHANGED << deploy, folder, triggersLeft, chunkMaxChars, provider,
                    fileRef, savedFileId, elapsed, lastStatus, transcript,
                    summary, formatted, error, notionPath, blocks,
                    notionPages, moves >>

\* faulty variant: the failure node is configured with the Completed folder
FailedFolderMisconfigured == "Completed"

\* destination folders configured on the two move nodes
CompletedFolder == "Completed"
FailedFolder    == "Failed"

\* faulty variant: the saved file_id lives in one slot shared by all runs
MoveToCompletedSharedFileId(r) ==
    /\ stage[r] = "Deliver"
    /\ drivePath[r] = "Move"
    /\ calls' = [calls EXCEPT ![r]["Move"] = @ + 1]
    /\ LET latest == { q \in RunIds : savedFileId[q] # NoFile }
           slot   == CHOOSE q \in latest : \A p \in latest : p <= q
       IN folder' = [folder EXCEPT ![savedFileId[slot]] = "Completed"]
    /\ moves' = [moves EXCEPT ![r] = Append(@, "Completed")]
    /\ drivePath' = [drivePath EXCEPT ![r] = "Done"]
    /\ UNCHANGED << deploy, triggersLeft, chunkMaxChars, provider, stage, fileRef,
                    savedFileId, elapsed, lastStatus, transcript, summary,
                    formatted, error, notionPath, blocks, outcome, driveFiles,
                    notionPages >>

\* the id Google Drive gives to the uploaded text file; the item leaving
\* Save Text to Google Drive carries it
UploadedFileId == "transcript_txt"

\* faulty variant: the item goes to the move node as the upload left it
RestoreFileIdBypassed(r) == UploadedFileId

\* Restore File ID: puts back the file_id saved at Initialize Polling
RestoreFileId(r) == savedFileId[r]

\* Path 1: Restore File ID, Move to Completed (moves the original audio file).
MoveToCompleted(r) ==
    /\ stage[r] = "Deliver"
    /\ drivePath[r] = "Move"
    /\ calls' = Called(r, "Move")
    /\ folder' = [f \in Files |-> IF f = RestoreFileId(r) THEN CompletedFolder
                                  ELSE folder[f]]
    /\ moves' = [moves EXCEPT ![r] = Append(@, CompletedFolder)]
    /\ drivePath' = [drivePath EXCEPT ![r] = "Done"]
    /\ UNCHANGED << deploy, triggersLeft, chunkMaxChars, provider, stage, fileRef,
                    savedFileId, elapsed, lastStatus, transcript, summary,
                    formatted, error, notionPath, blocks, outcome, driveFiles,
                    notionPages >>

\* paragraph blocks of one document, chunk index 0-based
ToBlocks(doc, chunks) ==
    [i \in 1..Len(chunks) |->
        [kind |-> "paragraph", doc |-> doc, index |-> i - 1, text |-> chunks[i]]]

\* Path 2: Build Notion Blocks (chunking logic), applied to both documents.
BuildNotionBlocks(r) ==
    /\ stage[r] = "Deliver"
    /\ notionPath[r] = "Build"
    /\ calls' = Called(r, "Chunker")
    /\ LET s == SplitResult(summary[r].text, chunkMaxChars)
           t == SplitResult(formatted[r], chunkMaxChars)
       IN IF s.tag = "Ok" /\ t.tag = "Ok"
          THEN /\ blocks' = [blocks EXCEPT ![r] =
                     [summary    |-> ToBlocks("summary", s.blocks),
                      transcript |-> ToBlocks("transcript", t.blocks)]]
               /\ notionPath' = [notionPath EXCEPT ![r] = "Create"]
               /\ UNCHANGED << stage, error >>
          ELSE \* InvalidArgument fails fast: the execution stops here
               /\ stage' = [stage EXCEPT ![r] = "Halted"]
               /\ error' = [error EXCEPT ![r] = "InvalidArgument"]
               /\ UNCHANGED << blocks, notionPath >>
    /\ UNCHANGED << deploy, folder, triggersLeft, chunkMaxChars, provider, fileRef,
                    savedFileId, elapsed, lastStatus, transcript, summary,
                    formatted, drivePath, outcome, driveFiles, notionPages,
                    moves >>

\* faulty variant: the page is created with the summary only, the transcript
\* blocks being left for a later append
NotionPageSummaryOnly(r) ==
    [run |-> r, title |-> fileRef[r],
     children |-> << [kind |-> "metadata"], [kind |-> "heading_summary"] >>
                  \o blocks[r].summary
                  \o << [kind |-> "heading_transcript"] >>]

\* faulty variant: the transcript section is placed above the summary section
NotionPageTranscriptFirst(r) ==
    [run |-> r, title |-> fileRef[r],
     children |-> << [kind |-> "metadata"], [kind |-> "heading_transcript"] >>
                  \o blocks[r].transcript
                  \o << [kind |-> "heading_summary"] >>
                  \o blocks[r].summary]

\* the page created in Notion: header, summary blocks, transcript blocks
NotionPage(r) ==
    [run |-> r, title |-> fileRef[r],
     children |-> << [kind |-> "metadata"], [kind |-> "heading_summary"] >>
                  \o blocks[r].summary
                  \o << [kind |-> "heading_transcript"] >>
                  \o blocks[r].transcript]

\* faulty variant: a failed Notion write withdraws the run's text file
DriveFilesRolledBack(r) == { d \in driveFiles : d.run # r }

\* Path 2 ends at Save to Notion: nothing is sent to Google Drive after a
\* failed Notion write
DriveFilesAfterNotionFailure(r) == driveFiles

\* Path 2: Save to Notion (one create call through the API).
SaveToNotion(r) ==
    /\ stage[r] = "Deliver"
    /\ notionPath[r] = "Create"
    /\ calls' = Called(r, "NotionSink")
    /\ \/ /\ notionPages' = notionPages \cup {NotionPage(r)}
          /\ outcome' = [outcome EXCEPT ![r].notion = "ok"]
          /\ UNCHANGED driveFiles
       \/ /\ UNCHANGED notionPages
          /\ outcome' = [outcome EXCEPT ![r].notion = "fail"]
          /\ driveFiles' = DriveFilesAfterNotionFailure(r)
    /\ stage' = [stage EXCEPT ![r] =
                    IF outcome'[r].notion = "fail"
                    THEN StageAfterNotionFailure ELSE "Deliver"]
    /\ notionPath' = [notionPath EXCEPT ![r] = "Done"]
    /\ UNCHANGED << deploy, folder, triggersLeft, chunkMaxChars, provider,
                    fileRef, savedFileId, elapsed, lastStatus, transcript,
                    summary, formatted, error, drivePath, blocks, moves >>

\* Error handling: moves failed files to the "Failed" folder.
MoveToFailed(r) ==
    /\ stage[r] = "Failed"
    /\ calls' = Called(r, "Move")
    /\ folder' = [folder EXCEPT ![fileRef[r]] = FailedFolder]
    /\ moves' = [moves EXCEPT ![r] = Append(@, FailedFolder)]
    /\ stage' = [stage EXCEPT ![r] = "Done"]
    /\ UNCHANGED << deploy, triggersLeft, chunkMaxChars, provider, fileRef,
                    savedFileId, elapsed, lastStatus, transcript, summary,
                    formatted, error, drivePath, notionPath, blocks, outcome,
                    driveFiles, notionPages >>

\* one step of run r
RunStep(r) ==
    \/ DownloadAudio(r)
    \/ StartTranscription(r)
    \/ InitializePolling(r)
    \/ Wait30Seconds(r)
    \/ GetResult(r)
    \/ ProcessWithOpenAI(r)
    \/ PrepareData(r)
    \/ CreateTextFileContent(r)
    \/ SaveTextToGoogleDrive(r)
    \/ MoveToCompleted(r)
    \/ BuildNotionBlocks(r)
    \/ SaveToNotion(r)
    \/ MoveToFailed(r)

Next ==
    \/ \E r \in RunIds, f \in Files : Trigger(r, f)
    \/ \E r \in RunIds : RunStep(r)

Spec == Init /\ [][Next]_vars

\* every node of a started run that can execute eventually does
FairSpec == SmallInit /\ [][Next]_vars /\ \A r \in RunIds : WF_vars(RunStep(r))

\* two detections: the watcher delivers two trigger events, the transcription
\* job is finished or failed at the first poll, each provider has one answer
ConcInit ==
    /\ folder = [f \in Files |-> "New"]
    /\ triggersLeft = 2
    /\ chunkMaxChars = MaxChunkChars
    /\ provider = [statuses    |-> {"completed", "error"},
                   transcripts |-> { << [speaker |-> "A", start |-> 5,
                                         text |-> Said("A")] >> },
                   summaries   |-> { << "a", "b" >> }]
    /\ stage = [r \in RunIds |-> "Idle"]
    /\ fileRef = [r \in RunIds |-> NoFile]
    /\ savedFileId = [r \in RunIds |-> NoFile]
    /\ elapsed = [r \in RunIds |-> 0]
    /\ lastStatus = [r \in RunIds |-> "none"]
    /\ transcript = [r \in RunIds |-> NoTranscript]
    /\ summary = [r \in RunIds |-> NoSummary]
    /\ formatted = [r \in RunIds |-> << >>]
    /\ error = [r \in RunIds |-> "None"]
    /\ calls = [r \in RunIds |-> [c \in Components |-> 0]]
    /\ drivePath = [r \in RunIds |-> "Off"]
    /\ notionPath = [r \in RunIds |-> "Off"]
    /\ blocks = [r \in RunIds |-> NoBlocks]
    /\ outcome = [r \in RunIds |-> NoOutcome]
    /\ driveFiles = {}
    /\ notionPages = {}
    /\ moves = [r \in RunIds |-> << >>]
    /\ deploy = DeployOff

\* runs of two detections, interleaved in any order
ConcSpec == ConcInit /\ [][Next]_vars

\* a deployment whose chunkMaxChars option may be zero or negative
ConfigInit ==
    /\ folder = [f \in Files |-> "New"]
    /\ triggersLeft = 1
    /\ chunkMaxChars \in MinChunkChars..MaxChunkChars
    /\ provider = [statuses    |-> Statuses,
                   transcripts |-> { << >>,
                                     << [speaker |-> "A", start |-> 5,
                                         text |-> Said("A")] >> },
                   summaries   |-> { << >>, << "a", "b" >> }]
    /\ stage = [r \in RunIds |-> "Idle"]
    /\ fileRef = [r \in RunIds |-> NoFile]
    /\ savedFileId = [r \in RunIds |-> NoFile]
    /\ elapsed = [r \in RunIds |-> 0]
    /\ lastStatus = [r \in RunIds |-> "none"]
    /\ transcript = [r \in RunIds |-> NoTranscript]
    /\ summary = [r \in RunIds |-> NoSummary]
    /\ formatted = [r \in RunIds |-> << >>]
    /\ error = [r \in RunIds |-> "None"]
    /\ calls = [r \in RunIds |-> [c \in Components |-> 0]]
    /\ drivePath = [r \in RunIds |-> "Off"]
    /\ notionPath = [r \in RunIds |-> "Off"]
    /\ blocks = [r \in RunIds |-> NoBlocks]
    /\ outcome = [r \in RunIds |-> NoOutcome]
    /\ driveFiles = {}
    /\ notionPages = {}
    /\ moves = [r \in RunIds |-> << >>]
    /\ deploy = DeployOff

ConfigSpec == ConfigInit /\ [][Next]_vars

\* ============================================================ deploy.sh
\* exit: the script ends with status st after printing msgs
Exit(d, st, msgs) ==
    [d EXCEPT !.pc = "Exited", !.status = st, !.out = @ \o msgs]

\* faulty variant: a failed prerequisite check prints its message and goes on
AfterCheckWarnOnly(d, ok, msg, nextPc) ==
    IF ok THEN [d EXCEPT !.pc = nextPc]
    ELSE [d EXCEPT !.pc = nextPc, !.out = Append(@, msg)]

\* if ! <check>; then echo <msg>; exit 1; fi
AfterCheck(d, ok, msg, nextPc) ==
    IF ok THEN [d EXCEPT !.pc = nextPc]
    ELSE Exit(d, 1, << msg >>)

\* set -e
ErrExit == TRUE

\* a simple command returned st: under set -e a non-zero status ends the
\* script with that status, otherwise $? is st and the next line runs
AfterCommand(d, cmd, st, nextPc) ==
    LET e == [d EXCEPT !.ran = Append(@, cmd), !.last = st]
    IN IF ErrExit /\ st # 0 THEN Exit(e, st, << >>)
       ELSE [e EXCEPT !.pc = nextPc]

CheckAwsCli ==
    /\ deploy.pc = "CheckAwsCli"
    /\ deploy' = AfterCheck(deploy, deploy.env.aws, "AWS CLI is not installed",
                            "CheckCredentials")
    /\ UNCHANGED flowVars

CheckCredentials ==
    /\ deploy.pc = "CheckCredentials"
    /\ deploy' = AfterCheck(deploy, deploy.env.aws /\ deploy.env.creds,
                            "AWS credentials not configured", "CheckNode")
    /\ UNCHANGED flowVars

CheckNode ==
    /\ deploy.pc = "CheckNode"
    /\ deploy' = AfterCheck(deploy, deploy.env.node, "Node.js is not installed",
                            "CheckNpm")
    /\ UNCHANGED flowVars

CheckNpm ==
    /\ deploy.pc = "CheckNpm"
    /\ LET d == AfterCheck(deploy, deploy.env.npm, "npm is not installed",
                           "GetAccountId")
       IN deploy' = IF d.pc = "GetAccountId"
                    THEN [d EXCEPT !.out = Append(@, "Prerequisites check passed")]
                    ELSE d
    /\ UNCHANGED flowVars

\* ACCOUNT_ID=$(aws sts get-caller-identity ...)
GetAccountId ==
    /\ deploy.pc = "GetAccountId"
    /\ \E st \in StatusesOf(deploy.env.aws) :
          /\ (~deploy.env.creds) => st # 0
          /\ deploy' = AfterCommand(deploy, [cmd |-> "aws sts", arg |-> ""], st,
                                    "NpmInstall")
    /\ UNCHANGED flowVars

NpmInstall ==
    /\ deploy.pc = "NpmInstall"
    /\ \E st \in StatusesOf(deploy.env.npm) :
          deploy' = AfterCommand(deploy, [cmd |-> "npm install", arg |-> ""], st,
                                 "CdkBootstrap")
    /\ UNCHANGED flowVars

CdkBootstrap ==
    /\ deploy.pc = "CdkBootstrap"
    /\ \E st \in StatusesOf(deploy.env.npm) :
          deploy' = AfterCommand(deploy, [cmd |-> "cdk bootstrap", arg |-> ""], st,
                                 "NpmRunBuild")
    /\ UNCHANGED flowVars

NpmRunBuild ==
    /\ deploy.pc = "NpmRunBuild"
    /\ \E st \in StatusesOf(deploy.env.npm) :
          deploy' = AfterCommand(deploy, [cmd |-> "npm run build", arg |-> ""], st,
                                 "CdkDeploy")
    /\ UNCHANGED flowVars

\* npx cdk deploy ${STACK_NAME} ... --outputs-file ./deployment-outputs.json
\* cdk fails when the app has no stack of that name
CdkDeploy ==
    /\ deploy.pc = "CdkDeploy"
    /\ \E st \in StatusesOf(deploy.env.npm), written \in BOOLEAN :
          /\ StackName \notin deploy.stacks => st # 0
          /\ st # 0 => ~written
          /\ deploy' = AfterCommand([deploy EXCEPT !.cdkStatus = st,
                                                   !.outputsFile = written],
                                    [cmd |-> "cdk deploy", arg |-> StackName], st,
                                    "CheckResult")
    /\ UNCHANGED flowVars

\* if [ $? -eq 0 ]; then ... else echo "Deployment failed!"; exit 1; fi
CheckResult ==
    /\ deploy.pc = "CheckResult"
    /\ deploy' = IF deploy.last = 0
                 THEN [deploy EXCEPT !.pc = "ExtractOutputs",
                         !.out = Append(@, "Deployment completed successfully!")]
                 ELSE Exit(deploy, 1, << "Deployment failed!" >>)
    /\ UNCHANGED flowVars

\* if [ -f ./deployment-outputs.json ]; then <read the outputs with jq> fi
ExtractOutputs ==
    /\ deploy.pc = "ExtractOutputs"
    /\ deploy' =
         IF ~deploy.outputsFile THEN [deploy EXCEPT !.pc = "Finish"]
         ELSE LET d == [deploy EXCEPT !.out = Append(@, "Deployment Information:")]
                  e == AfterCommand(d, [cmd |-> "jq", arg |-> OutputsKey],
                                    IF deploy.env.jq THEN 0 ELSE CommandNotFound,
                                    "Finish")
              IN IF e.pc = "Finish" /\ OutputsKey \in deploy.stacks
                 THEN [e EXCEPT !.out = Append(@, "n8n Admin Interface")]
                 ELSE e
    /\ UNCHANGED flowVars

Finish ==
    /\ deploy.pc = "Finish"
    /\ deploy' = Exit(deploy, 0, << "Deployment process completed!" >>)
    /\ UNCHANGED flowVars

\* the script is started on any machine, with either CDK app
DeployInit ==
    /\ folder = [f \in Files |-> "New"]
    /\ triggersLeft = 0
    /\ chunkMaxChars = MaxChunkChars
    /\ provider = [statuses |-> {}, transcripts |-> {}, summaries |-> {}]
    /\ stage = [r \in RunIds |-> "Idle"]
    /\ fileRef = [r \in RunIds |-> NoFile]
    /\ savedFileId = [r \in RunIds |-> NoFile]
    /\ elapsed = [r \in RunIds |-> 0]
    /\ lastStatus = [r \in RunIds |-> "none"]
    /\ transcript = [r \in RunIds |-> NoTranscript]
    /\ summary = [r \in RunIds |-> NoSummary]
    /\ formatted = [r \in RunIds |-> << >>]
    /\ error = [r \in RunIds |-> "None"]
    /\ calls = [r \in RunIds |-> [c \in Components |-> 0]]
    /\ drivePath = [r \in RunIds |-> "Off"]
    /\ notionPath = [r \in RunIds |-> "Off"]
    /\ blocks = [r \in RunIds |-> NoBlocks]
    /\ outcome = [r \in RunIds |-> NoOutcome]
    /\ driveFiles = {}
    /\ notionPages = {}
    /\ \E env \in Envs, stacks \in CdkApps :
          deploy = DeployAt("CheckAwsCli", env, stacks)
    /\ moves = [r \in RunIds |-> << >>]

DeployNext ==
    \/ CheckAwsCli
    \/ CheckCredentials
    \/ CheckNode
    \/ CheckNpm
    \/ GetAccountId
    \/ NpmInstall
    \/ CdkBootstrap
    \/ NpmRunBuild
    \/ CdkDeploy
    \/ CheckResult
    \/ ExtractOutputs
    \/ Finish

DeploySpec == DeployInit /\ [][DeployNext]_vars

\* ------------------------------------------------------- derived run state
Started(r)      == stage[r] # "Idle"
DeliveryDone(r) == stage[r] = "Deliver" /\ drivePath[r] = "Done"
                   /\ notionPath[r] = "Done"
Terminal(r)     == stage[r] = "Done" \/ DeliveryDone(r)
Moved(r)        == moves[r] # << >>

\* ================================================================ properties
BlockTexts(bs) == [i \in 1..Len(bs) |-> bs[i].text]
CeilDiv(a, b)  == (a + b - 1) \div b
Chunked(r)     == calls[r]["Chunker"] > 0

\* the two documents of run r and the block sequences built from them
DocText(r, doc)   == IF doc = "summary" THEN summary[r].text ELSE formatted[r]
DocBlocks(r, doc) == IF doc = "summary" THEN blocks[r].summary
                     ELSE blocks[r].transcript
DocKinds == {"summary", "transcript"}

\* C1: concatenating the blocks of Split(s, n) in chunk-index order yields
\* exactly s, for every text s the run chunks and every chunk size n > 0.
C1_ConcatReconstructs ==
    \A r \in RunIds : Chunked(r) =>
        \A doc \in DocKinds :
            Concat(BlockTexts(DocBlocks(r, doc))) = DocText(r, doc)

\* C1 witness: a text was split into several blocks, the last one partial
C1_Witness ==
    \E r \in RunIds :
        /\ Chunked(r)
        /\ Len(blocks[r].transcript) >= 3
        /\ Len(formatted[r]) % chunkMaxChars # 0
        /\ Len(blocks[r].summary) >= 2

\* C2: Split(s, n) returns exactly ceil(len(s)/n) blocks, zero when s is empty.
C2_BlockCount ==
    \A r \in RunIds : Chunked(r) =>
        \A doc \in DocKinds :
            /\ Len(DocBlocks(r, doc)) = CeilDiv(Len(DocText(r, doc)), chunkMaxChars)
            /\ DocText(r, doc) = << >> => DocBlocks(r, doc) = << >>

\* C2 witness: an empty text gave zero blocks and a text whose length is not
\* a multiple of the chunk size gave a rounded-up count
C2_Witness ==
    \E r \in RunIds :
        /\ Chunked(r)
        /\ summary[r].text = << >> /\ blocks[r].summary = << >>
        /\ Len(formatted[r]) % chunkMaxChars # 0
        /\ Len(blocks[r].transcript) = Len(formatted[r]) \div chunkMaxChars + 1

\* C3: every block has length 1..n, every block but the last has length
\* exactly n, and block i is the slice s[i*n : min((i+1)*n, len(s))].
C3_BlockSlices ==
    \A r \in RunIds : Chunked(r) =>
        \A doc \in DocKinds :
            LET s  == DocText(r, doc)
                bs == DocBlocks(r, doc)
                n  == chunkMaxChars
            IN \A k \in 1..Len(bs) :
                /\ bs[k].index = k - 1
                /\ Len(bs[k].text) \in 1..n
                /\ k < Len(bs) => Len(bs[k].text) = n
                /\ bs[k].text = [j \in 1..(Min(k * n, Len(s)) - (k - 1) * n)
                                   |-> s[(k - 1) * n + j]]

\* C3 witness: full-width blocks followed by a shorter last block
C3_Witness ==
    \E r \in RunIds :
        /\ Chunked(r)
        /\ chunkMaxChars > 1
        /\ Len(blocks[r].transcript) >= 2
        /\ Len(blocks[r].transcript[Len(blocks[r].transcript)].text) < chunkMaxChars

\* ---------------------------------------------------------- poll loop
AfterPolling == {"OpenAI", "PrepareData", "CreateContent", "Deliver"}
Queries(r)   == calls[r]["Poll"]

\* C4: a Transcript is returned only after a status query returned
\* `completed`; while the statuses seen are `queued`/`processing` (and the
\* deadline is not exceeded) the run sleeps pollInterval and queries again,
\* and holds no Transcript.
C4_TranscriptOnlyAfterCompleted ==
    \A r \in RunIds :
        /\ transcript[r].present => lastStatus[r] = "completed"
        /\ stage[r] \in AfterPolling =>
               lastStatus[r] = "completed" /\ transcript[r].present
        /\ lastStatus[r] \in Pending =>
               /\ ~transcript[r].present
               /\ ~DeadlineExceeded(elapsed[r]) => stage[r] \in {"Wait", "GetResult"}
        /\ stage[r] = "GetResult" => elapsed[r] = (Queries(r) + 1) * PollIntervalSeconds
        /\ stage[r] = "Wait" => elapsed[r] = Queries(r) * PollIntervalSeconds

\* C4 witness: two pending statuses were polled through before `completed`
C4_Witness ==
    \E r \in RunIds :
        /\ transcript[r].present
        /\ lastStatus[r] = "completed"
        /\ Queries(r) >= 3
        /\ stage[r] = "OpenAI"

\* C5: AwaitCompletion returns no later than deadline + pollInterval after
\* submission, whatever statuses the provider reports.
C5_ReturnsWithinDeadlinePlusInterval ==
    \A r \in RunIds :
        /\ elapsed[r] <= PollDeadlineSeconds + PollIntervalSeconds
        /\ stage[r] = "Wait" => elapsed[r] <= PollDeadlineSeconds

\* C5 witness: the loop ran to the last possible query and returned Timeout
C5_Witness ==
    \E r \in RunIds :
        /\ error[r] = "Timeout"
        /\ elapsed[r] > PollDeadlineSeconds
        /\ stage[r] = "Failed"

\* C6: once a status query returns `error` the run has failed with
\* ProviderError, and it issues no further Poll and no second Submit.
C6_ErrorStatusIsTerminal ==
    [][\A r \in RunIds :
          /\ lastStatus'[r] = "error" =>
                /\ error'[r] = "ProviderError"
                /\ stage'[r] \in {"Failed", "Done"}
                /\ calls'[r]["Submit"] = 1
          /\ lastStatus[r] = "error" =>
                /\ calls'[r]["Poll"] = calls[r]["Poll"]
                /\ calls'[r]["Submit"] = calls[r]["Submit"]
                /\ lastStatus'[r] = "error"]_vars

\* C6 witness: a run that polled `error` after pending statuses has ended
C6_Witness ==
    \E r \in RunIds :
        /\ lastStatus[r] = "error"
        /\ Queries(r) >= 2
        /\ stage[r] = "Done"

\* C7: a run that failed at download, submission or transcription invoked no
\* Formatter, Summarizer, Chunker or sink adapter, wrote to neither sink, and
\* is at the file move with a Failed verdict.
C7_EarlyFailureSkipsDownstream ==
    \A r \in RunIds : error[r] \in EarlyErrors =>
        /\ \A c \in Downstream : calls[r][c] = 0
        /\ outcome[r] = NoOutcome /\ blocks[r] = NoBlocks
        /\ drivePath[r] = "Off" /\ notionPath[r] = "Off"
        /\ \A d \in driveFiles : d.run # r
        /\ \A pg \in notionPages : pg.run # r
        /\ \/ stage[r] = "Failed" /\ moves[r] = << >>
           \/ stage[r] = "Done" /\ moves[r] = << "Failed" >>

\* C7 witness: a rejected submission ended with the file in Failed
C7_Witness ==
    \E r \in RunIds :
        /\ error[r] = "SubmissionError"
        /\ stage[r] = "Done"
        /\ folder[fileRef[r]] = "Failed"

\* C8: when the summarization provider fails, Summarize returns Fallback with
\* a non-empty placeholder and raises nothing; the run continues through the
\* Chunker and both sink adapters and reaches the file move.
C8_FallbackRunContinues ==
    /\ [](\A r \in RunIds : summary[r].tag = "Fallback" =>
            /\ summary[r].text # << >>
            /\ error[r] = "None"
            /\ stage[r] \in AfterPolling)
    /\ \A r \in RunIds :
         (summary[r].tag = "Fallback") ~>
            (/\ calls[r]["Chunker"] = 1
             /\ calls[r]["DriveSink"] = 1
             /\ calls[r]["NotionSink"] = 1
             /\ Moved(r))

\* C8 witness: a run with a Fallback summary delivered it and moved its file
C8_Witness ==
    \E r \in RunIds :
        /\ summary[r].tag = "Fallback"
        /\ DeliveryDone(r)
        /\ Moved(r)
        /\ \E pg \in notionPages : pg.run = r
        /\ \E d \in driveFiles : d.run = r /\ d.summary = FallbackText

\* C9: every started run reaches a terminal state; a run whose job only ever
\* reported `queued`/`processing` ends with Timeout and its file in Failed.
C9_EveryRunTerminates ==
    /\ \A r \in RunIds : Started(r) ~> (Terminal(r) /\ Moved(r))
    /\ [](\A r \in RunIds :
            (Terminal(r) /\ lastStatus[r] \in Pending) =>
                (error[r] = "Timeout" /\ moves[r] = << "Failed" >>))

\* C9 witness: the job stayed pending past the deadline and the file is in Failed
C9_Witness ==
    \E r \in RunIds :
        /\ Terminal(r)
        /\ lastStatus[r] \in Pending
        /\ error[r] = "Timeout"
        /\ folder[fileRef[r]] = "Failed"

\* C10: the file is moved to Completed iff a Transcript was obtained, and to
\* Failed whenever download, submission or transcription failed.
C10_VerdictFollowsTranscript ==
    \A r \in RunIds :
        /\ Moved(r) => (moves[r][1] = "Completed" <=> transcript[r].present)
        /\ (Moved(r) /\ error[r] \in EarlyErrors) => moves[r][1] = "Failed"
        /\ (Terminal(r) /\ error[r] \in EarlyErrors) => moves[r] = << "Failed" >>
        /\ (Terminal(r) /\ transcript[r].present) => moves[r] = << "Completed" >>

\* C10 witness: a Transcript was obtained, a sink write failed, and the file
\* is in Completed
C10_Witness ==
    \E r \in RunIds :
        /\ transcript[r].present
        /\ outcome[r].drive = "fail"
        /\ moves[r] = << "Completed" >>
        /\ folder[fileRef[r]] = "Completed"

\* ------------------------------------------------------------ file move
\* C11: the source file is moved at most once per run, and the Move is the
\* last action of the run: once the file is moved the run invokes no further
\* component (no download, poll, summarize, chunking or sink write).
C11_MoveIsLastAction ==
    [][\A r \in RunIds :
          /\ Len(moves'[r]) <= 1
          /\ Moved(r) => calls'[r] = calls[r]]_vars

\* C12: the Move of the source file of a run that reached delivery never
\* happens before both sink adapters have recorded their DeliveryOutcome.
C12_MoveAfterBothSinks ==
    \A r \in RunIds :
        (Moved(r) /\ drivePath[r] # "Off") =>
            (outcome[r].drive # "none" /\ outcome[r].notion # "none")

\* -------------------------------------------------------------- delivery
ReachedDelivery(r) == drivePath[r] # "Off"

\* C13: a failure of one sink adapter neither prevents nor aborts the other
\* adapter's call; every run that reaches delivery invokes both adapters and
\* records exactly one DeliveryOutcome per sink.
C13_SinksIndependent ==
    /\ [](\A r \in RunIds :
            /\ ReachedDelivery(r) => (stage[r] = "Deliver" /\ notionPath[r] # "Off")
            /\ calls[r]["DriveSink"] = (IF outcome[r].drive = "none" THEN 0 ELSE 1)
            /\ calls[r]["NotionSink"] = (IF outcome[r].notion = "none" THEN 0 ELSE 1)
            /\ outcome[r].drive # "none" <=> drivePath[r] \in {"Move", "Done"}
            /\ outcome[r].notion # "none" <=> notionPath[r] = "Done")
    /\ \A r \in RunIds :
          ReachedDelivery(r) ~>
             (outcome[r].drive # "none" /\ outcome[r].notion # "none")

\* C13 witness: the Drive adapter failed first and the Notion adapter was
\* still called and succeeded
C13_Witness ==
    \E r \in RunIds :
        /\ outcome[r].drive = "fail"
        /\ outcome[r].notion = "ok"
        /\ drivePath[r] = "Move"
        /\ \E pg \in notionPages : pg.run = r

\* records of run r in the structured sink
PagesOf(r) == { pg \in notionPages : pg.run = r }

\* the complete block array of run r: every block of both documents
FullChildren(r) ==
    << [kind |-> "metadata"], [kind |-> "heading_summary"] >>
    \o ToBlocks("summary", Split(summary[r].text, chunkMaxChars))
    \o << [kind |-> "heading_transcript"] >>
    \o ToBlocks("transcript", Split(formatted[r], chunkMaxChars))

\* C14: the structured sink holds no record of a run or one record with the
\* complete block array; the record appears in one create call, is never
\* changed afterwards, and a failed create leaves nothing.
C14_AtomicNotionRecord ==
    /\ [](\A r \in RunIds :
            /\ Cardinality(PagesOf(r)) <= 1
            /\ outcome[r].notion # "ok" => PagesOf(r) = {}
            /\ \A pg \in PagesOf(r) : pg.children = FullChildren(r))
    /\ [][\A r \in RunIds :
            /\ PagesOf(r) # {} => PagesOf(r)' = PagesOf(r)
            /\ PagesOf(r)' # PagesOf(r) =>
                  /\ calls'[r]["NotionSink"] = 1
                  /\ calls[r]["NotionSink"] = 0]_vars

\* C14 witness: a record holding several blocks of each document was created
C14_Witness ==
    \E r \in RunIds :
        /\ outcome[r].notion = "ok"
        /\ \E pg \in PagesOf(r) :
              /\ Len(blocks[r].summary) >= 2
              /\ Len(blocks[r].transcript) >= 2
              /\ Len(pg.children) = 3 + Len(blocks[r].summary) + Len(blocks[r].transcript)

\* text files of run r in the flat sink
FilesOf(r) == { d \in driveFiles : d.run = r }

\* the paragraph texts of one document in a Notion record, in page order
ParagraphTexts(pg, doc) ==
    BlockTexts(SelectSeq(pg.children,
                         LAMBDA c : c.kind = "paragraph" /\ c.doc = doc))

Lengths(q) == [i \in 1..Len(q) |-> Len(q[i])]

\* a summary of exactly 5000 characters split with chunkMaxChars = 2000
ScenarioC ==
    Lengths(Split([i \in 1..5000 |-> "a"], 2000)) = << 2000, 2000, 1000 >>

\* C15: the structured sink receives each document as blocks of at most
\* chunkMaxChars characters, the flat sink receives the full summary and
\* transcript unsplit in one write, and the blocks of each document
\* concatenate to the text the flat sink received; 5000 characters with
\* chunkMaxChars = 2000 give blocks of 2000, 2000 and 1000.
C15_BlocksVersusFullText ==
    /\ ScenarioC
    /\ \A r \in RunIds :
        /\ Cardinality(FilesOf(r)) <= 1
        /\ calls[r]["DriveSink"] <= 1
        /\ \A d \in FilesOf(r) :
              /\ d.summary = summary[r].text
              /\ d.transcript = formatted[r]
              /\ \A pg \in PagesOf(r) :
                    /\ Concat(ParagraphTexts(pg, "summary")) = d.summary
                    /\ Concat(ParagraphTexts(pg, "transcript")) = d.transcript
        /\ \A pg \in PagesOf(r) : \A k \in 1..Len(pg.children) :
              pg.children[k].kind = "paragraph" =>
                  Len(pg.children[k].text) \in 1..chunkMaxChars

\* C15 witness: both sinks hold the run's output, the flat text being longer
\* than one block
C15_Witness ==
    \E r \in RunIds : \E d \in FilesOf(r) : \E pg \in PagesOf(r) :
        /\ Len(d.summary) > chunkMaxChars
        /\ Len(d.transcript) > 2 * chunkMaxChars
        /\ Len(ParagraphTexts(pg, "summary")) >= 2
        /\ Len(ParagraphTexts(pg, "transcript")) >= 3

\* ------------------------------------------------------------- formatter
\* reading the formatted text back: lines, and the stamp of a line
RECURSIVE SplitLines(_)
SplitLines(text) ==
    IF text = << >> THEN << >>
    ELSE LET nl == { i \in 1..Len(text) : text[i] = "\n" }
         IN IF nl = {} THEN << text >>
            ELSE LET k == CHOOSE i \in nl : \A j \in nl : i <= j
                 IN << SubSeq(text, 1, k - 1) >>
                    \o SplitLines(SubSeq(text, k + 1, Len(text)))

FirstIndex(line, c) ==
    LET at == { i \in 1..Len(line) : line[i] = c }
    IN IF at = {} THEN 0 ELSE CHOOSE i \in at : \A j \in at : i <= j

IsDigit(c)  == \E d \in 0..9 : Digit(d) = c
DigitVal(c) == CHOOSE d \in 0..9 : Digit(d) = c

RECURSIVE Number(_)
Number(cs) == IF cs = << >> THEN 0
              ELSE 10 * Number(SubSeq(cs, 1, Len(cs) - 1)) + DigitVal(cs[Len(cs)])

MinuteChars(line) == SubSeq(line, 2, FirstIndex(line, ":") - 1)
SecondChars(line) == SubSeq(line, FirstIndex(line, ":") + 1, FirstIndex(line, "]") - 1)
AfterStamp(line)  == SubSeq(line, FirstIndex(line, "]") + 1, Len(line))
StampSeconds(line) == 60 * Number(MinuteChars(line)) + Number(SecondChars(line))

Formatted(r) == calls[r]["Formatter"] > 0

\* C16: Format emits exactly one line per utterance, and the lines are in
\* non-decreasing start-offset order whatever the input order.
C16_OneLinePerUtteranceInOrder ==
    \A r \in RunIds : Formatted(r) =>
        LET ls == SplitLines(formatted[r])
        IN /\ Len(ls) = Len(transcript[r].utterances)
           /\ \A k \in 1..(Len(ls) - 1) :
                 StampSeconds(ls[k]) <= StampSeconds(ls[k + 1])

\* C16 witness: utterances that came in descending start order were formatted
C16_Witness ==
    \E r \in RunIds :
        /\ Formatted(r)
        /\ Len(transcript[r].utterances) = 2
        /\ transcript[r].utterances[1].start > transcript[r].utterances[2].start
        /\ Len(SplitLines(formatted[r])) = 2

\* C17: the line of an utterance starting at s seconds begins with [MM:SS],
\* MM = s div 60 and SS = s mod 60, each zero-padded to two digits, so SS is
\* in 00..59.
C17_StampIsMinutesSeconds ==
    \A r \in RunIds : Formatted(r) =>
        LET ls == SplitLines(formatted[r])
            us == transcript[r].utterances
        IN /\ \A k \in 1..Len(ls) :
                 /\ ls[k][1] = "["
                 /\ FirstIndex(ls[k], ":") > 0 /\ FirstIndex(ls[k], "]") > 0
                 /\ Len(MinuteChars(ls[k])) >= 2
                 /\ Len(SecondChars(ls[k])) = 2
                 /\ \A i \in 1..Len(MinuteChars(ls[k])) : IsDigit(MinuteChars(ls[k])[i])
                 /\ \A i \in 1..2 : IsDigit(SecondChars(ls[k])[i])
                 /\ Number(SecondChars(ls[k])) \in 0..59
                 /\ \E j \in 1..Len(us) :
                       /\ Number(MinuteChars(ls[k])) = us[j].start \div 60
                       /\ Number(SecondChars(ls[k])) = us[j].start % 60
                       /\ AfterStamp(ls[k]) = << " " >> \o SpeakerLabel(us[j].speaker)
                                              \o << ":", " " >> \o us[j].text
           /\ \A j \in 1..Len(us) : \E k \in 1..Len(ls) :
                 /\ Number(MinuteChars(ls[k])) = us[j].start \div 60
                 /\ Number(SecondChars(ls[k])) = us[j].start % 60

\* C17 witness: a line stamped [00:05] and a line stamped [10:15]
C17_Witness ==
    \E r \in RunIds :
        /\ Formatted(r)
        /\ \E k \in 1..Len(SplitLines(formatted[r])) :
              SubSeq(SplitLines(formatted[r])[k], 1, 7)
                 = << "[", "0", "0", ":", "0", "5", "]" >>
        /\ \E k \in 1..Len(SplitLines(formatted[r])) :
              SubSeq(SplitLines(formatted[r])[k], 1, 7)
                 = << "[", "1", "0", ":", "1", "5", "]" >>

\* ------------------------------------------------------- concurrent runs
\* everything run r owns: its stage, job, texts, outcomes and sink entries
RunState(r) ==
    << stage[r], fileRef[r], savedFileId[r], elapsed[r], lastStatus[r],
       transcript[r], summary[r], formatted[r], error[r], calls[r],
       drivePath[r], notionPath[r], blocks[r], outcome[r], moves[r],
       PagesOf(r), FilesOf(r) >>

OtherFile(r) == \A q \in RunIds \ {r} : fileRef[q] # fileRef[r]

\* C18: concurrent runs share no mutable state.  No step changes the state of
\* two runs, a file changes folder only by a Move of a run that holds it, and
\* what a run delivers and where its file ends is determined by that run's
\* own transcript, summary and file, as when it executes alone.
C18_RunsAreIndependent ==
    /\ [][/\ \A r, q \in RunIds :
               r # q => (RunState(r)' = RunState(r) \/ RunState(q)' = RunState(q))
          /\ \A f \in Files : folder'[f] # folder[f] =>
               \E r \in RunIds : fileRef[r] = f /\ moves'[r] # moves[r]]_vars
    /\ [](\A r \in RunIds :
            /\ FilesOf(r) \subseteq {TextFile(r)}
            /\ PagesOf(r) \subseteq {[run |-> r, title |-> fileRef[r],
                                      children |-> FullChildren(r)]}
            /\ Moved(r) => (moves[r] = << "Completed" >> <=> transcript[r].present)
            /\ (Moved(r) /\ OtherFile(r)) => folder[fileRef[r]] = moves[r][1]
            /\ (~Moved(r) /\ Started(r) /\ OtherFile(r)) => folder[fileRef[r]] = "New")

\* C18 witness: two runs for different files ended, one in Completed with
\* both deliveries, one in Failed
C18_Witness ==
    \E r, q \in RunIds :
        /\ fileRef[r] # NoFile /\ fileRef[q] # NoFile /\ fileRef[r] # fileRef[q]
        /\ DeliveryDone(r) /\ FilesOf(r) # {} /\ PagesOf(r) # {}
        /\ folder[fileRef[r]] = "Completed"
        /\ stage[q] = "Done" /\ folder[fileRef[q]] = "Failed"

\* ------------------------------------------------- chunk size precondition
\* C19: Split called with maxSize <= 0 fails with InvalidArgument and
\* produces no blocks, for every input text including the empty text; a run
\* that chunks under such a size records InvalidArgument, holds no blocks
\* and creates no page.
C19_NonPositiveSizeIsInvalidArgument ==
    /\ chunkMaxChars <= 0 =>
         \A text \in SummaryTexts :
             SplitResult(text, chunkMaxChars)
                 = [tag |-> "InvalidArgument", blocks |-> << >>]
    /\ \A r \in RunIds : Chunked(r) =>
         IF chunkMaxChars <= 0
         THEN /\ error[r] = "InvalidArgument"
              /\ blocks[r] = NoBlocks
              /\ calls[r]["NotionSink"] = 0
              /\ PagesOf(r) = {}
         ELSE error[r] # "InvalidArgument"

\* C19 witness: a run chunked two empty texts under a non-positive size and
\* was stopped with InvalidArgument
C19_Witness ==
    \E r \in RunIds :
        /\ chunkMaxChars <= 0
        /\ Chunked(r)
        /\ summary[r].text = << >> /\ formatted[r] = << >>
        /\ error[r] = "InvalidArgument"
        /\ blocks[r] = NoBlocks

\* C19 witness (non-empty text): the same with a summary and a transcript
C19_WitnessText ==
    \E r \in RunIds :
        /\ chunkMaxChars <= 0
        /\ Chunked(r)
        /\ summary[r].text # << >> /\ formatted[r] # << >>
        /\ error[r] = "InvalidArgument"

\* ------------------------------------------------------ propagation policy
Sinks == {"drive", "notion"}
EndedBeforeDelivery(r) == stage[r] \in {"Failed", "Done"} /\ drivePath[r] = "Off"
SinkFailed(r) == \E k \in Sinks : outcome[r][k] = "fail"

\* a run ends before delivery only with a download, submission or
\* transcription error, and a failed outcome leaves the run in delivery
C20_OnlyEarlyErrorsAbort ==
    \A r \in RunIds :
        /\ EndedBeforeDelivery(r) <=> error[r] \in EarlyErrors
        /\ SinkFailed(r) => (stage[r] = "Deliver" /\ error[r] = "None")

\* C20: only DownloadError, SubmissionError and TranscriptionError end a run
\* before delivery; a failed DeliveryOutcome on one sink or on both never
\* aborts the run, which still invokes Finalize afterwards: when a sink's
\* failure is recorded the file has not been moved yet, and it is moved later.
C20_FailedDeliveryThenFinalize ==
    /\ []C20_OnlyEarlyErrorsAbort
    /\ [][\A r \in RunIds : \A k \in Sinks :
            (outcome[r][k] = "none" /\ outcome'[r][k] = "fail")
                => moves'[r] = << >>]_vars

\* the run of the counterexample: the text file is saved, the audio file is
\* moved to Completed, and only then the Notion create call fails
C20_FailureAfterFinalize ==
    \E r \in RunIds :
        /\ outcome[r].drive = "ok" /\ outcome[r].notion = "fail"
        /\ moves[r] = << "Completed" >>
        /\ calls[r]["Move"] = 1

\* ------------------------------------------------------------ stage order
\* the order of the stages of a successful run, first to last
StageOrder == << {"Download"}, {"Submit"}, {"Poll"}, {"Formatter"},
                 {"Summarizer"}, {"Chunker"}, {"DriveSink", "NotionSink"},
                 {"Move"} >>

Invoked(r, c) == calls[r][c] > 0

\* C21: the stages of a successful run occur in the order download,
\* transcription, Formatter, Summarizer, Chunker, Delivery Dispatcher,
\* Lifecycle Manager: a stage is invoked only after every stage before it,
\* the Summarizer only after the Formatter, and no stage other than the poll
\* query executes more than once per run.
C21_StagesInFixedOrder ==
    \A r \in RunIds :
        /\ \A i \in 2..Len(StageOrder) : \A c \in StageOrder[i] :
              (Invoked(r, c) /\ error[r] = "None") =>
                  \A b \in StageOrder[i - 1] : Invoked(r, b)
        /\ \A c \in Components \ {"Poll"} : calls[r][c] <= 1

\* the run of the counterexample: the summary exists while the transcript
\* has not been formatted yet
C21_SummaryBeforeFormat ==
    \E r \in RunIds :
        /\ Invoked(r, "Summarizer") /\ ~Invoked(r, "Formatter")
        /\ summary[r] # NoSummary /\ formatted[r] = << >>
        /\ transcript[r].present /\ transcript[r].utterances # << >>

\* -------------------------------------------------------- partial delivery
BothPathsEnded(r) ==
    stage[r] = "Deliver" /\ drivePath[r] = "Done" /\ notionPath[r] = "Done"

\* C22: a state where one sink succeeded and the other failed is a valid end
\* state in which the successful write is retained: a sink that answered ok
\* holds the run's text file or page from then on, nothing is ever removed
\* from a sink, and each sink is called at most once per run.
C22_PartialDeliveryRetained ==
    /\ [](\A r \in RunIds :
            /\ outcome[r].drive = "ok" => FilesOf(r) = {TextFile(r)}
            /\ outcome[r].notion = "ok" => PagesOf(r) = {NotionPage(r)}
            /\ calls[r]["DriveSink"] <= 1 /\ calls[r]["NotionSink"] <= 1)
    /\ [][driveFiles \subseteq driveFiles' /\ notionPages \subseteq notionPages']_vars

\* C22 witness: the run ended with the text file saved and kept, the Notion
\* write failed, and the audio file moved
C22_Witness ==
    \E r \in RunIds :
        /\ BothPathsEnded(r) /\ Moved(r)
        /\ outcome[r] = [drive |-> "ok", notion |-> "fail"]
        /\ FilesOf(r) = {TextFile(r)} /\ PagesOf(r) = {}

\* the mirrored end state: the page created and kept, the text file failed
C22_WitnessNotionOnly ==
    \E r \in RunIds :
        /\ BothPathsEnded(r) /\ Moved(r)
        /\ outcome[r] = [drive |-> "fail", notion |-> "ok"]
        /\ FilesOf(r) = {} /\ PagesOf(r) = {NotionPage(r)}

\* no stage other than the poll query executes more than once per run
OncePerRun ==
    \A r \in RunIds : \A c \in Components \ {"Poll"} : calls[r][c] <= 1

\* ------------------------------------------------------------ moved file
\* C23: the file the Lifecycle Manager moves is always the run's original
\* source file, the reference received from the trigger and saved before
\* polling: a Move of run r changes the folder of that file and of no other,
\* and once a run has moved, its source file lies in the folder of the verdict.
C23_MovesTheSourceFile ==
    /\ [](\A r \in RunIds :
            /\ savedFileId[r] \in {NoFile, fileRef[r]}
            /\ Moved(r) => folder[fileRef[r]] = moves[r][Len(moves[r])])
    /\ [][\A r \in RunIds : moves'[r] # moves[r] =>
            /\ folder'[fileRef[r]] = moves'[r][Len(moves'[r])]
            /\ \A f \in Files \ {fileRef[r]} : folder'[f] = folder[f]]_vars

\* C23 witness: a text file was uploaded, then the audio file of the trigger
\* was moved to Completed through the saved file_id
C23_Witness ==
    \E r \in RunIds :
        /\ FilesOf(r) # {} /\ outcome[r].drive = "ok"
        /\ savedFileId[r] = fileRef[r]
        /\ moves[r] = << "Completed" >>
        /\ folder[fileRef[r]] = "Completed"

\* ------------------------------------------------------- order of children
IsParagraph(b, doc) == b.kind = "paragraph" /\ b.doc = doc
CountOf(pg, doc) ==
    Cardinality({ i \in 1..Len(pg.children) : IsParagraph(pg.children[i], doc) })

\* the children of pg are: metadata, summary heading, n summary blocks with
\* chunk index 0..n-1, transcript heading, m transcript blocks with 0..m-1
ChildrenInOrder(pg) ==
    LET c == pg.children
        n == CountOf(pg, "summary")
        m == CountOf(pg, "transcript")
    IN /\ Len(c) = n + m + 3
       /\ c[1].kind = "metadata"
       /\ c[2].kind = "heading_summary"
       /\ \A i \in 1..n : IsParagraph(c[2 + i], "summary") /\ c[2 + i].index = i - 1
       /\ c[3 + n].kind = "heading_transcript"
       /\ \A j \in 1..m : IsParagraph(c[3 + n + j], "transcript")
                          /\ c[3 + n + j].index = j - 1

\* C24: the structured sink's record lists the metadata header, the summary
\* heading, all summary blocks in ascending chunk index, the transcript
\* heading, all transcript blocks in ascending chunk index; no transcript
\* block precedes a summary block and the two sequences are not interleaved.
C24_ChildrenOrder ==
    \A pg \in notionPages :
        /\ ChildrenInOrder(pg)
        /\ \A i, j \in 1..Len(pg.children) :
              (IsParagraph(pg.children[i], "transcript")
                 /\ IsParagraph(pg.children[j], "summary")) => j < i

\* C24 witness: a record with several summary blocks and several transcript
\* blocks
C24_Witness ==
    \E pg \in notionPages :
        /\ CountOf(pg, "summary") >= 2
        /\ CountOf(pg, "transcript") >= 2
        /\ ChildrenInOrder(pg)

\* ------------------------------------------------------ timeout, no cancel
TimedOut(r) == error[r] = "Timeout"

\* C25: when the poll deadline is exceeded the run fails with Timeout and the
\* submitted job is abandoned, not retracted: no cancel request is ever sent,
\* and after the Timeout no further Poll and no Submit go to the provider.
C25_TimeoutAbandonsJob ==
    /\ [](\A r \in RunIds :
            /\ calls[r]["Cancel"] = 0
            /\ TimedOut(r) => (stage[r] \in {"Failed", "Done"}
                               /\ elapsed[r] > PollDeadlineSeconds
                               /\ ~transcript[r].present))
    /\ [][\A r \in RunIds : TimedOut(r) =>
            /\ TimedOut(r)'
            /\ calls'[r]["Poll"] = calls[r]["Poll"]
            /\ calls'[r]["Submit"] = calls[r]["Submit"]]_vars

\* C25 witness: a run timed out while the job was still processing, and ended
\* with its file in Failed
C25_Witness ==
    \E r \in RunIds :
        /\ TimedOut(r)
        /\ lastStatus[r] \in Pending
        /\ stage[r] = "Done" /\ moves[r] = << "Failed" >>
        /\ calls[r]["Submit"] = 1 /\ calls[r]["Cancel"] = 0

\* --------------------------------------------------- query at the deadline
\* run r makes a status query in this step
QueryStep(r) == stage[r] = "GetResult" /\ calls'[r]["Poll"] = calls[r]["Poll"] + 1

\* C26: a status query made when the elapsed time equals the deadline exactly
\* and answered `completed` returns the Transcript, not Timeout; answered with
\* a pending status it goes on waiting; Timeout is raised only once the
\* elapsed time is strictly greater than the deadline.
C26_DeadlineIsStrict ==
    /\ [](\A r \in RunIds : TimedOut(r) => elapsed[r] > PollDeadlineSeconds)
    /\ [][\A r \in RunIds :
            (QueryStep(r) /\ elapsed[r] = PollDeadlineSeconds) =>
                /\ error'[r] # "Timeout"
                /\ lastStatus'[r] = "completed" =>
                      (transcript'[r].present /\ error'[r] = "None"
                       /\ stage'[r] = "OpenAI")
                /\ lastStatus'[r] \in Pending => stage'[r] = "Wait"]_vars

\* C26 witness: the query at exactly the deadline returned `completed` and
\* the run went on with the transcript
C26_Witness ==
    \E r \in RunIds :
        /\ elapsed[r] = PollDeadlineSeconds
        /\ lastStatus[r] = "completed"
        /\ calls[r]["Poll"] = PollDeadlineSeconds \div PollIntervalSeconds
        /\ transcript[r].present /\ error[r] = "None"
        /\ stage[r] = "OpenAI"

\* ------------------------------------------------- second detection, same file
SameFile(r, q) == r # q /\ fileRef[r] # NoFile /\ fileRef[r] = fileRef[q]

\* C27: a trigger event starts a run with no deduplication check: while a
\* file is in New a detection of it starts a run, also when another run
\* already holds that file; the two runs proceed side by side and each makes
\* its own sink calls and its own Move, one of each.
C27_NoDeduplication ==
    \A r \in RunIds :
        /\ \A f \in Files :
              (triggersLeft > 0 /\ folder[f] = "New") =>
                  \E q \in RunIds : ENABLED Trigger(q, f)
        /\ \A q \in RunIds : (SameFile(r, q) /\ BothPathsEnded(r)) =>
              /\ calls[r]["DriveSink"] = 1
              /\ calls[r]["NotionSink"] = 1
              /\ calls[r]["Move"] = 1
              /\ moves[r] = << "Completed" >>
              /\ FilesOf(r) \subseteq {TextFile(r)}
              /\ outcome[r].drive = "ok" => FilesOf(r) # {}
              /\ outcome[r].notion = "ok" => PagesOf(r) # {}

\* C27 witness: two runs of the same file ran at the same time and both
\* ended, each with its own text file, its own page and its own Move
C27_Witness ==
    \E r, q \in RunIds :
        /\ SameFile(r, q)
        /\ BothPathsEnded(r) /\ BothPathsEnded(q)
        /\ FilesOf(r) # {} /\ FilesOf(q) # {}
        /\ PagesOf(r) # {} /\ PagesOf(q) # {}
        /\ calls[r]["Move"] = 1 /\ calls[q]["Move"] = 1

\* the second run started while the first one was under way, its file in New
C27_WitnessOverlap ==
    \E r, q \in RunIds :
        /\ SameFile(r, q)
        /\ stage[r] = "Deliver" /\ ~Moved(r)
        /\ stage[q] = "Download"
        /\ folder[fileRef[r]] = "New"

\* ------------------------------------------------------ deploy.sh properties
Printed(msg) == \E i \in 1..Len(deploy.out) : deploy.out[i] = msg
Ran(cmd)     == \E i \in 1..Len(deploy.ran) : deploy.ran[i].cmd = cmd

PrerequisiteMissing ==
    \/ ~deploy.env.aws
    \/ ~deploy.env.creds
    \/ ~deploy.env.node
    \/ ~deploy.env.npm

\* C28: whenever a prerequisite check fails (aws CLI missing, credentials
\* not configured, node missing, npm missing) deploy.sh exits with status 1
\* before it runs npm install, cdk bootstrap, the build or cdk deploy.
C28_PrerequisiteFailureExitsFirst ==
    (deploy.pc # "Off" /\ PrerequisiteMissing) =>
        /\ \A cmd \in Provisioning : ~Ran(cmd)
        /\ deploy.ran = << >>
        /\ deploy.pc \in {"CheckAwsCli", "CheckCredentials", "CheckNode",
                          "CheckNpm", "Exited"}
        /\ deploy.pc = "Exited" => (deploy.status = 1 /\ Len(deploy.out) = 1)
        /\ ~Printed("Prerequisites check passed")

\* C28 witness: aws, credentials and node are there, npm is not; the script
\* has exited with status 1 at the last check
C28_Witness ==
    /\ deploy.env.aws /\ deploy.env.creds /\ deploy.env.node /\ ~deploy.env.npm
    /\ deploy.pc = "Exited" /\ deploy.status = 1
    /\ Printed("npm is not installed")
    /\ deploy.ran = << >>

DeployFailed == deploy.cdkStatus \notin {NotExited, 0}

\* C29: when the `npx cdk deploy` step exits with a non-zero status the
\* script takes its failure branch (prints 'Deployment failed!'), exits with
\* status 1, and never prints 'Deployment process completed!'.
C29_FailedDeployTakesFailureBranch ==
    (DeployFailed /\ deploy.pc = "Exited") =>
        /\ Printed("Deployment failed!")
        /\ deploy.status = 1
        /\ ~Printed("Deployment process completed!")

\* the run of the counterexample: cdk deploy returned 2 and the script ended
\* there, with that status and without a word
C29_ExitsAtTheCommand ==
    /\ deploy.pc = "Exited"
    /\ deploy.cdkStatus = 2 /\ deploy.status = 2
    /\ ~Printed("Deployment failed!")
    /\ ~Printed("Deployment process completed!")

\* the failure branch is never taken
C29_FailureBranchDead == ~Printed("Deployment failed!")

\* C30: the stack name deploy.sh passes to `cdk deploy`, and uses as the key
\* when reading deployment-outputs.json, names a stack instantiated by the
\* entry point cdk-app.ts.
C30_StackNameIsInstantiated ==
    (deploy.stacks = CdkAppTsStacks /\ Ran("cdk deploy")) =>
        \A i \in 1..Len(deploy.ran) :
            deploy.ran[i].cmd \in {"cdk deploy", "jq"} =>
                deploy.ran[i].arg \in deploy.stacks

\* the run of the counterexample: with cdk-app.ts every prerequisite and
\* build step passed and cdk deploy failed on the unknown stack name
C30_DeployOfUnknownStack ==
    /\ deploy.stacks = CdkAppTsStacks
    /\ Ran("cdk deploy") /\ StackName \notin deploy.stacks
    /\ deploy.cdkStatus = 1
    /\ deploy.pc = "Exited"

\* with cdk-app.ts the deployment never succeeds
C30_NeverSucceedsWithCdkAppTs ==
    deploy.stacks = CdkAppTsStacks => ~Printed("Deployment completed successfully!")

====
